---- MODULE Spec2Model ----
(***************************************************************************)
(* Product catalogue backend (src/app.js): GET /produtos, POST /produtos,  *)
(* DELETE /produtos/:id over a PostgreSQL table and the Vercel Blob store. *)
(*                                                                         *)
(* Strings are sequences of lexemes (tokens); the lexemes that the code    *)
(* inspects ("data", ":", ";base64,", "http") are tokens of their own.     *)
(* A JavaScript value is a record [t, s]: t its type, s its text.          *)
(* Every handler runs atomically between two awaited I/O calls; an action  *)
(* is the completion of the pending call followed by the handler's code up *)
(* to the next call it issues (or to its response).                        *)
(***************************************************************************)
EXTENDS Integers, Sequences, FiniteSets, TLC

VARIABLES db, nextId, blobs, nextKey, pc, req, loc, res, log, started

vars == <<db, nextId, blobs, nextKey, pc, req, loc, res, log, started>>

(* ------------------------------ bounds --------------------------------- *)
MaxHandlers == 2
MaxRequests == 2
MaxSeedRows == 1
MaxLen == 5

Procs == 1..MaxHandlers

(* --------------------------- JavaScript values ------------------------- *)
Undefined == [t |-> "undefined", s |-> <<>>]
Str(s) == [t |-> "string", s |-> s]
Num(s) == [t |-> "number", s |-> s]

\* !v
Falsy(v) ==
  \/ v.t = "undefined"
  \/ v.t = "string" /\ v.s = <<>>
  \/ v.t = "number" /\ v.s = <<"0">>

\* String.prototype.startsWith
StartsWith(s, pre) == Len(s) >= Len(pre) /\ SubSeq(s, 1, Len(pre)) = pre

\* String.prototype.split with a separator that is one lexeme
RECURSIVE Split(_, _)
Split(s, d) ==
  IF \A i \in 1..Len(s) : s[i] # d
  THEN <<s>>
  ELSE LET i == CHOOSE k \in 1..Len(s) : s[k] = d /\ \A j \in 1..(k - 1) : s[j] # d
       IN <<SubSeq(s, 1, i - 1)>> \o Split(SubSeq(s, i + 1, Len(s)), d)

DataPrefix == <<"data", ":">>
Base64Delim == ";base64,"

extensaoMapeada(mimeType) ==
  CASE mimeType = <<"image/png">> -> "png"
    [] mimeType = <<"image/jpeg">> -> "jpg"
    [] mimeType = <<"application/pdf">> -> "pdf"
    [] mimeType = <<"image/svg+xml">> -> "svg"
    [] OTHER -> "bin"

Throw(message) == [threw |-> message, mimeType |-> <<>>, extensao |-> ""]

\* mutant: the check of the split is parts.length < 2
uploadBase64ToStorage_AtLeastTwoParts(dataUrl) ==
  IF Falsy(dataUrl) THEN Throw("Formato de Base64 invalido.")
  ELSE IF dataUrl.t # "string" THEN Throw("TypeError")
  ELSE IF ~StartsWith(dataUrl.s, DataPrefix) THEN Throw("Formato de Base64 invalido.")
  ELSE LET parts == Split(dataUrl.s, Base64Delim)
       IN IF Len(parts) < 2 THEN Throw("Base64 malformado.")
          ELSE LET mimeType == Split(parts[1], ":")[2]
               IN [threw |-> "", mimeType |-> mimeType,
                   extensao |-> extensaoMapeada(mimeType)]

\* uploadBase64ToStorage up to the call of put: the checks, the split, the
\* declared type and the extension.  threw = "" when nothing is thrown.
\* A truthy value that is no string has no startsWith method: TypeError.
uploadBase64ToStorage(dataUrl) ==
  IF Falsy(dataUrl) THEN Throw("Formato de Base64 invalido.")
  ELSE IF dataUrl.t # "string" THEN Throw("TypeError")
  ELSE IF ~StartsWith(dataUrl.s, DataPrefix) THEN Throw("Formato de Base64 invalido.")
  ELSE LET parts == Split(dataUrl.s, Base64Delim)
       IN IF Len(parts) # 2 THEN Throw("Base64 malformado.")
          ELSE LET mimeType == Split(parts[1], ":")[2]
               IN [threw |-> "", mimeType |-> mimeType,
                   extensao |-> extensaoMapeada(mimeType)]

\* `${Date.now()}-${random}.${extensao}`: the time and the random token are a
\* fresh key, written in unary so that two names never coincide.
NomeArquivo(key, extensao) == [i \in 1..key |-> "k"] \o <<".", extensao>>

\* resultado.url: the public URL the blob store returns for the object
PublicUrl(nomeArquivo) == <<"http", "s://blob/">> \o nomeArquivo

(* ------------------------------ requests -------------------------------- *)
NaN == [nan |-> TRUE, n |-> 0]
Int32(n) == [nan |-> FALSE, n |-> n]

DigitChars == <<"0", "1", "2", "3", "4", "5", "6", "7", "8", "9">>
IsDigit(c) == \E d \in 1..10 : DigitChars[d] = c
DigitVal(c) == (CHOOSE d \in 1..10 : DigitChars[d] = c) - 1

RECURSIVE DigitsValue(_, _)
DigitsValue(s, acc) ==
  IF s = <<>> \/ ~IsDigit(Head(s)) THEN acc
  ELSE DigitsValue(Tail(s), acc * 10 + DigitVal(Head(s)))

\* parseInt(req.params.id) on a parameter of digits and letters: the leading
\* digits, NaN when there is none
parseInt(s) ==
  IF s = <<>> \/ ~IsDigit(Head(s)) THEN NaN ELSE Int32(DigitsValue(s, 0))

NoBody == [nome |-> Undefined, imagem |-> Undefined,
           pdfDataUrl |-> Undefined, youtubeLink |-> Undefined]
NoRequest == [route |-> "none", body |-> NoBody, id |-> <<>>]
NoLocals == [id_produto |-> NaN, finalImageUrl |-> Undefined, finalPdfUrl |-> Undefined,
             imagem_url |-> Undefined, pdf_url |-> Undefined,
             urlsToDelete |-> <<>>, err |-> ""]
NoResponse == [status |-> 0, error |-> "", message |-> <<>>, items |-> <<>>]

ErrorResponse(status, error) ==
  [status |-> status, error |-> error, message |-> <<>>, items |-> <<>>]

\* the per-handler part of a step: where it waits, its locals, its response, its calls
Set(p, newpc, newloc, newres, newlog) ==
  /\ pc' = [pc EXCEPT ![p] = newpc]
  /\ loc' = [loc EXCEPT ![p] = newloc]
  /\ res' = [res EXCEPT ![p] = newres]
  /\ log' = [log EXCEPT ![p] = newlog]

Call(op, arg) == [op |-> op, arg |-> arg, out |-> "pending"]
\* the pending (last) call of a handler, completed with an outcome
Returned(lg, out) == [lg EXCEPT ![Len(lg)].out = out]

\* a handler slot takes a request when no request runs in it (its last response,
\* if any, has been sent); handlers are interchangeable, so the lowest free one
Free(p) ==
  /\ pc[p] \in {"idle", "done"}
  /\ \A q \in Procs : q < p => pc[q] \notin {"idle", "done"}

(* --------------------------- POST /produtos ----------------------------- *)
CadastroError == "Erro ao cadastrar produto."
CamposObrigatorios == "Todos os campos sao obrigatorios."

\* mutant: the presence check forgets youtubeLink
MissingField_SkipsLink(body) ==
  Falsy(body.nome) \/ Falsy(body.imagem) \/ Falsy(body.pdfDataUrl)

\* !nome || !imagem || !pdfDataUrl || !youtubeLink
MissingField(body) ==
  Falsy(body.nome) \/ Falsy(body.imagem) \/ Falsy(body.pdfDataUrl) \/ Falsy(body.youtubeLink)

\* await uploadBase64ToStorage(dataUrl), up to its await of put: a throw lands
\* in the handler's catch (500), otherwise put is issued under a fresh name
BeginUpload(p, dataUrl, awaiting, l, lg) ==
  LET d == uploadBase64ToStorage(dataUrl)
  IN IF d.threw # ""
     THEN /\ Set(p, "done", [l EXCEPT !.err = d.threw], ErrorResponse(500, CadastroError), lg)
          /\ nextKey' = nextKey
     ELSE /\ Set(p, awaiting, l, NoResponse,
                 Append(lg, Call("put", NomeArquivo(nextKey, d.extensao))))
          /\ nextKey' = nextKey + 1

\* the request arrives: the presence check, then the image upload begins
PostProdutos(p, body) ==
  /\ Free(p)
  /\ started < MaxRequests
  /\ started' = started + 1
  /\ req' = [req EXCEPT ![p] = [route |-> "POST", body |-> body, id |-> <<>>]]
  /\ IF MissingField(body)
     THEN /\ Set(p, "done", NoLocals, ErrorResponse(400, CamposObrigatorios), <<>>)
          /\ nextKey' = nextKey
     ELSE BeginUpload(p, body.imagem, "put_img", NoLocals, <<>>)
  /\ UNCHANGED <<db, nextId, blobs>>

\* put of the image returns or throws; on return the document upload begins
PutImgCompletes(p) ==
  /\ pc[p] = "put_img"
  /\ \/ /\ Set(p, "done", [loc[p] EXCEPT !.err = "put"],
               ErrorResponse(500, CadastroError), Returned(log[p], "error"))
        /\ UNCHANGED <<blobs, nextKey>>
     \/ LET url == PublicUrl(log[p][Len(log[p])].arg)
        IN /\ blobs' = blobs \cup {url}
           /\ BeginUpload(p, req[p].body.pdfDataUrl, "put_pdf",
                          [loc[p] EXCEPT !.finalImageUrl = Str(url)],
                          Returned(log[p], "ok"))
  /\ UNCHANGED <<db, nextId, req, started>>

\* mutant: the two url columns are exchanged
InsertValues_Swapped(nome, finalImageUrl, finalPdfUrl, youtubeLink) ==
  [nome |-> nome, imagem_url |-> finalPdfUrl, pdf_url |-> finalImageUrl,
   youtube_link |-> youtubeLink]

\* const values = [nome, finalImageUrl, finalPdfUrl, youtubeLink], as the row
InsertValues(nome, finalImageUrl, finalPdfUrl, youtubeLink) ==
  [nome |-> nome, imagem_url |-> finalImageUrl, pdf_url |-> finalPdfUrl,
   youtube_link |-> youtubeLink]

\* mutant: a failed document upload is swallowed and the INSERT is issued
PutPdfCompletes_InsertsAnyway(p) ==
  /\ pc[p] = "put_pdf"
  /\ \/ /\ Set(p, "insert", [loc[p] EXCEPT !.err = "put"], NoResponse,
               Append(Returned(log[p], "error"), Call("INSERT", <<>>)))
        /\ UNCHANGED blobs
     \/ LET url == PublicUrl(log[p][Len(log[p])].arg)
        IN /\ blobs' = blobs \cup {url}
           /\ Set(p, "insert", [loc[p] EXCEPT !.finalPdfUrl = Str(url)], NoResponse,
                  Append(Returned(log[p], "ok"), Call("INSERT", <<>>)))
  /\ UNCHANGED <<db, nextId, nextKey, req, started>>

\* put of the document returns or throws; on return the INSERT is issued
PutPdfCompletes(p) ==
  /\ pc[p] = "put_pdf"
  /\ \/ /\ Set(p, "done", [loc[p] EXCEPT !.err = "put"],
               ErrorResponse(500, CadastroError), Returned(log[p], "error"))
        /\ UNCHANGED blobs
     \/ LET url == PublicUrl(log[p][Len(log[p])].arg)
        IN /\ blobs' = blobs \cup {url}
           /\ Set(p, "insert", [loc[p] EXCEPT !.finalPdfUrl = Str(url)], NoResponse,
                  Append(Returned(log[p], "ok"), Call("INSERT", <<>>)))
  /\ UNCHANGED <<db, nextId, nextKey, req, started>>

\* the formatting shared by the 201 response and the list
Formatado(id, row) ==
  [id |-> id, name |-> row.nome, image |-> row.imagem_url,
   pdfDataUrl |-> row.pdf_url, youtubeLink |-> row.youtube_link]

\* INSERT ... RETURNING returns the new row (201) or throws (500)
InsertCompletes(p) ==
  /\ pc[p] = "insert"
  /\ \/ /\ Set(p, "done", [loc[p] EXCEPT !.err = "db"],
               ErrorResponse(500, CadastroError), Returned(log[p], "error"))
        /\ UNCHANGED <<db, nextId>>
     \/ LET novoProduto == InsertValues(req[p].body.nome, loc[p].finalImageUrl,
                                        loc[p].finalPdfUrl, req[p].body.youtubeLink)
        IN /\ db' = [i \in DOMAIN db \cup {nextId} |->
                       IF i = nextId THEN novoProduto ELSE db[i]]
           /\ nextId' = nextId + 1
           /\ Set(p, "done", loc[p],
                  [status |-> 201, error |-> "", message |-> <<>>,
                   items |-> <<Formatado(nextId, novoProduto)>>],
                  Returned(log[p], "ok"))
  /\ UNCHANGED <<blobs, nextKey, req, started>>

(* ---------------------------- GET /produtos ----------------------------- *)
ConsultaError == "Erro interno ao consultar o catalogo."

\* mutant: ORDER BY id ASC
RECURSIVE OrderByIdAsc(_)
OrderByIdAsc(ids) ==
  IF ids = {} THEN <<>>
  ELSE LET m == CHOOSE i \in ids : \A j \in ids : i <= j
       IN <<m>> \o OrderByIdAsc(ids \ {m})

\* ORDER BY id DESC over the ids of the table
RECURSIVE OrderByIdDesc(_)
OrderByIdDesc(ids) ==
  IF ids = {} THEN <<>>
  ELSE LET m == CHOOSE i \in ids : \A j \in ids : j <= i
       IN <<m>> \o OrderByIdDesc(ids \ {m})

\* resultados.rows.map(...) over SELECT ... FROM produtos ORDER BY id DESC
resultadosFormatados(table) ==
  LET order == OrderByIdDesc(DOMAIN table)
  IN [k \in 1..Len(order) |-> Formatado(order[k], table[order[k]])]

\* the request arrives and the SELECT is issued
GetProdutos(p) ==
  /\ Free(p)
  /\ started < MaxRequests
  /\ started' = started + 1
  /\ req' = [req EXCEPT ![p] = [route |-> "GET", body |-> NoBody, id |-> <<>>]]
  /\ Set(p, "query", NoLocals, NoResponse, <<Call("SELECT", <<>>)>>)
  /\ UNCHANGED <<db, nextId, blobs, nextKey>>

\* the SELECT returns the rows (200 with the formatted list) or throws (500)
QueryCompletes(p) ==
  /\ pc[p] = "query"
  /\ \/ Set(p, "done", [loc[p] EXCEPT !.err = "db"],
            ErrorResponse(500, ConsultaError), Returned(log[p], "error"))
     \/ Set(p, "done", loc[p],
            [status |-> 200, error |-> "", message |-> <<>>,
             items |-> resultadosFormatados(db)],
            Returned(log[p], "ok"))
  /\ UNCHANGED <<db, nextId, blobs, nextKey, req, started>>

(* ------------------------- DELETE /produtos/:id ------------------------- *)
ExclusaoError == "Erro interno ao excluir produto."
NaoEncontrado == "Produto nao encontrado."

\* mutant: the filter keeps every non-empty url
urlsToDelete_AnyTruthy(imagem_url, pdf_url) ==
  SelectSeq(<<imagem_url, pdf_url>>, LAMBDA url : ~Falsy(url))

\* [imagem_url, pdf_url].filter(url => url && url.startsWith('http'))
urlsToDelete(imagem_url, pdf_url) ==
  SelectSeq(<<imagem_url, pdf_url>>,
            LAMBDA url : ~Falsy(url) /\ StartsWith(url.s, <<"http">>))

\* { message: `Produto ${id_produto} excluido com sucesso.` }
Excluido(id_produto) ==
  [status |-> 200, error |-> "", message |-> <<id_produto>>, items |-> <<>>]

\* the request arrives: the id is parsed and the SELECT by id is issued
DeleteProdutos(p, id) ==
  /\ Free(p)
  /\ started < MaxRequests
  /\ started' = started + 1
  /\ req' = [req EXCEPT ![p] = [route |-> "DELETE", body |-> NoBody, id |-> id]]
  /\ Set(p, "select", [NoLocals EXCEPT !.id_produto = parseInt(id)], NoResponse,
         <<Call("SELECT", <<>>)>>)
  /\ UNCHANGED <<db, nextId, blobs, nextKey>>

\* mutant: rowCount is not checked; with no row the DELETE is issued all the same
SelectCompletes_NoRowCheck(p) ==
  LET id == loc[p].id_produto
  IN /\ pc[p] = "select"
     /\ \/ Set(p, "done", [loc[p] EXCEPT !.err = "db unavailable"],
               ErrorResponse(500, ExclusaoError), Returned(log[p], "error"))
        \/ /\ id.nan
           /\ Set(p, "done", [loc[p] EXCEPT !.err = "invalid input syntax"],
                  ErrorResponse(500, ExclusaoError), Returned(log[p], "error"))
        \/ /\ id.nan \/ id.n \notin DOMAIN db
           /\ Set(p, "delete", loc[p], NoResponse,
                  Append(Returned(log[p], "norow"), Call("DELETE", <<>>)))
        \/ /\ ~id.nan /\ id.n \in DOMAIN db
           /\ Set(p, "delete",
                  [loc[p] EXCEPT !.imagem_url = db[id.n].imagem_url,
                                 !.pdf_url = db[id.n].pdf_url],
                  NoResponse,
                  Append(Returned(log[p], "ok"), Call("DELETE", <<>>)))
     /\ UNCHANGED <<db, nextId, blobs, nextKey, req, started>>

\* the SELECT by id returns or throws.  The database may be unavailable for
\* any query.  The parameter NaN is sent as the text 'NaN': an integer id
\* column rejects it (the query throws), another column type matches no row.
SelectCompletes(p) ==
  LET id == loc[p].id_produto
  IN /\ pc[p] = "select"
     /\ \/ Set(p, "done", [loc[p] EXCEPT !.err = "db unavailable"],
               ErrorResponse(500, ExclusaoError), Returned(log[p], "error"))
        \/ /\ id.nan
           /\ Set(p, "done", [loc[p] EXCEPT !.err = "invalid input syntax"],
                  ErrorResponse(500, ExclusaoError), Returned(log[p], "error"))
        \/ /\ id.nan \/ id.n \notin DOMAIN db
           /\ Set(p, "done", loc[p], ErrorResponse(404, NaoEncontrado),
                  Returned(log[p], "norow"))
        \/ /\ ~id.nan /\ id.n \in DOMAIN db
           /\ Set(p, "delete",
                  [loc[p] EXCEPT !.imagem_url = db[id.n].imagem_url,
                                 !.pdf_url = db[id.n].pdf_url],
                  NoResponse,
                  Append(Returned(log[p], "ok"), Call("DELETE", <<>>)))
     /\ UNCHANGED <<db, nextId, blobs, nextKey, req, started>>

\* the loop over the urls: del of the next one is issued, or the 200 is sent
NextDel(p, l, lg, urls) ==
  IF urls = <<>>
  THEN Set(p, "done", [l EXCEPT !.urlsToDelete = <<>>], Excluido(l.id_produto), lg)
  ELSE Set(p, "del", [l EXCEPT !.urlsToDelete = urls], NoResponse,
           Append(lg, Call("del", urls[1].s)))

\* mutant: the DELETE statement matches no row (the row stays), the clean-up runs
DeleteCompletes_KeepsRow(p) ==
  /\ pc[p] = "delete"
  /\ \/ Set(p, "done", [loc[p] EXCEPT !.err = "db unavailable"],
            ErrorResponse(500, ExclusaoError), Returned(log[p], "error"))
     \/ NextDel(p, loc[p], Returned(log[p], "ok"),
                urlsToDelete(loc[p].imagem_url, loc[p].pdf_url))
  /\ UNCHANGED <<db, nextId, blobs, nextKey, req, started>>

\* the DELETE by id returns (the row is gone, the blob clean-up begins) or throws
DeleteCompletes(p) ==
  /\ pc[p] = "delete"
  /\ \/ /\ Set(p, "done", [loc[p] EXCEPT !.err = "db unavailable"],
               ErrorResponse(500, ExclusaoError), Returned(log[p], "error"))
        /\ UNCHANGED db
     \/ /\ db' = [i \in DOMAIN db \ {loc[p].id_produto.n} |-> db[i]]
        /\ NextDel(p, loc[p], Returned(log[p], "ok"),
                   urlsToDelete(loc[p].imagem_url, loc[p].pdf_url))
  /\ UNCHANGED <<nextId, blobs, nextKey, req, started>>

\* mutant: no try/catch around del; its failure reaches the outer catch (500)
DelCompletes_Rethrows(p) ==
  /\ pc[p] = "del"
  /\ \/ /\ blobs' = blobs \ {loc[p].urlsToDelete[1].s}
        /\ NextDel(p, loc[p], Returned(log[p], "ok"), Tail(loc[p].urlsToDelete))
     \/ /\ UNCHANGED blobs
        /\ Set(p, "done", [loc[p] EXCEPT !.err = "del"],
               ErrorResponse(500, ExclusaoError), Returned(log[p], "error"))
  /\ UNCHANGED <<db, nextId, nextKey, req, started>>

\* del(url) returns (the object is gone) or throws (caught, warned); the loop goes on
DelCompletes(p) ==
  /\ pc[p] = "del"
  /\ \/ /\ blobs' = blobs \ {loc[p].urlsToDelete[1].s}
        /\ NextDel(p, loc[p], Returned(log[p], "ok"), Tail(loc[p].urlsToDelete))
     \/ /\ UNCHANGED blobs
        /\ NextDel(p, [loc[p] EXCEPT !.err = "warn"], Returned(log[p], "error"),
                   Tail(loc[p].urlsToDelete))
  /\ UNCHANGED <<db, nextId, nextKey, req, started>>

(* ------------------------------- inputs --------------------------------- *)
Widget == Str(<<"Widget">>)
YoutubeLink == Str(<<"https://youtu.be/x">>)
Png == Str(<<"data", ":", "image/png", ";base64,", "QUJD">>)
Pdf == Str(<<"data", ":", "application/pdf", ";base64,", "QUJD">>)
NoPrefix == Str(<<"image/png", ";base64,", "QUJD">>)
TwoDelims == Str(<<"data", ":", "image/png", ";base64,", ";base64,">>)
Seven == Num(<<"7">>)

Body(nome, imagem, pdfDataUrl, youtubeLink) ==
  [nome |-> nome, imagem |-> imagem, pdfDataUrl |-> pdfDataUrl,
   youtubeLink |-> youtubeLink]

\* the bodies of the concurrent service: well-formed, ill-formed, incomplete
ServiceBodies ==
  {Body(Widget, Png, Pdf, YoutubeLink), Body(Widget, NoPrefix, Pdf, YoutubeLink),
   Body(Widget, Png, TwoDelims, YoutubeLink), Body(Undefined, Png, Pdf, YoutubeLink)}

Alphabet == {"data", ":", ";base64,", "image/png", "application/pdf", "QUJD"}
FieldValues == {Undefined, Str(<<>>), Widget}
PayloadValues == {Undefined, Str(<<>>), Num(<<"0">>), Seven, Png, Pdf, NoPrefix}

\* /produtos/1, /produtos/2a, /produtos/19, /produtos/a1
IdParams == {<<"1">>, <<"2", "a">>, <<"1", "9">>, <<"a", "1">>}

\* rows already in the table: uploaded by this service (both objects stored),
\* or legacy rows whose columns are NULL, empty or a local path
SeedKinds == {"blob", "legacy", "mixed"}
SeedUrl(key, extensao) == Str(PublicUrl(NomeArquivo(key, extensao)))
SeedRow(i, kind) ==
  CASE kind = "blob" ->
         InsertValues(Widget, SeedUrl(2 * i - 1, "png"), SeedUrl(2 * i, "pdf"), YoutubeLink)
    [] kind = "legacy" ->
         InsertValues(Widget, Str(<<"uploads/", "a.png">>), Undefined, YoutubeLink)
    [] kind = "mixed" ->
         InsertValues(Widget, Str(<<>>), SeedUrl(2 * i, "pdf"), YoutubeLink)

StoredUrls(table) ==
  {u.s : u \in {x \in UNION {{table[i].imagem_url, table[i].pdf_url} : i \in DOMAIN table} :
                  ~Falsy(x) /\ StartsWith(x.s, <<"http">>)}}

(* ---------------------------- specifications ---------------------------- *)
Idle ==
  /\ pc = [p \in Procs |-> "idle"]
  /\ req = [p \in Procs |-> NoRequest]
  /\ loc = [p \in Procs |-> NoLocals]
  /\ res = [p \in Procs |-> NoResponse]
  /\ log = [p \in Procs |-> <<>>]

Init ==
  /\ \E n \in 0..MaxSeedRows : \E kind \in [1..n -> SeedKinds] :
       /\ db = [i \in 1..n |-> SeedRow(i, kind[i])]
       /\ nextId = n + 1
       /\ nextKey = 2 * n + 1
  /\ blobs = StoredUrls(db)
  /\ started = 0
  /\ Idle

Next ==
  \E p \in Procs :
    \/ \E body \in ServiceBodies : PostProdutos(p, body)
    \/ PutImgCompletes(p)
    \/ PutPdfCompletes(p)
    \/ InsertCompletes(p)
    \/ GetProdutos(p)
    \/ QueryCompletes(p)
    \/ \E id \in IdParams : DeleteProdutos(p, id)
    \/ SelectCompletes(p)
    \/ DeleteCompletes(p)
    \/ DelCompletes(p)

Spec == Init /\ [][Next]_vars

\* one create request, alone, over the wide set of bodies
InitCreate ==
  /\ db = <<>>
  /\ nextId = 1
  /\ nextKey = 1
  /\ blobs = {}
  /\ started = MaxRequests - 1
  /\ Idle

\* the bodies of the lone request: every presence pattern of the four fields,
\* and every string of at most MaxLen lexemes as the image or as the document
NextCreate ==
  \E p \in Procs :
    \/ /\ Free(p) /\ started < MaxRequests
       /\ \E n \in FieldValues, i \in PayloadValues, d \in PayloadValues, y \in FieldValues :
            PostProdutos(p, Body(n, i, d, y))
    \/ /\ Free(p) /\ started < MaxRequests
       /\ \E k \in 0..MaxLen : \E s \in [1..k -> Alphabet] :
            \/ PostProdutos(p, Body(Widget, Str(s), Pdf, YoutubeLink))
            \/ PostProdutos(p, Body(Widget, Png, Str(s), YoutubeLink))
    \/ PutImgCompletes(p)
    \/ PutPdfCompletes(p)
    \/ InsertCompletes(p)

SpecCreate == InitCreate /\ [][NextCreate]_vars

(* ------------------------------ properties ------------------------------ *)
\* the operations a handler has issued, in order
Ops(lg) == [i \in 1..Len(lg) |-> lg[i].op]

AbsentOrEmpty(v) == v = Undefined \/ v = Str(<<>>)

\* the shape the decoder accepts, stated by counting: the prefix 'data:' and
\* exactly one ';base64,'
Delims(s) == Cardinality({i \in 1..Len(s) : s[i] = ";base64,"})
HasPrefix(s) == Len(s) >= 2 /\ s[1] = "data" /\ s[2] = ":"
WellFormed(v) == v.t = "string" /\ HasPrefix(v.s) /\ Delims(v.s) = 1
InvalidFormat == {"Formato de Base64 invalido.", "Base64 malformado."}

\* a column value a blob deletion is due for: non-empty text starting with 'http'
Qualifies(v) == v.t = "string" /\ v.s # <<>> /\ v.s[1] = "http"

\* C1: a POST /produtos whose nome, imagem, pdfDataUrl or youtubeLink is absent
\* or empty is answered 400 and issues no put and no database write, whatever
\* the other fields hold (the lone request leaves both stores empty).
C1_MissingFieldFailsFast ==
  \A p \in Procs :
    (/\ req[p].route = "POST"
     /\ \/ AbsentOrEmpty(req[p].body.nome)
        \/ AbsentOrEmpty(req[p].body.imagem)
        \/ AbsentOrEmpty(req[p].body.pdfDataUrl)
        \/ AbsentOrEmpty(req[p].body.youtubeLink))
    => /\ pc[p] = "done"
       /\ res[p].status = 400
       /\ log[p] = <<>>
       /\ blobs = {}
       /\ DOMAIN db = {}

\* only the link is empty; the three other fields are well-formed
C1_Witness ==
  \E p \in Procs :
    /\ req[p].route = "POST" /\ pc[p] = "done"
    /\ req[p].body = Body(Widget, Png, Pdf, Str(<<>>))
    /\ res[p].status = 400

\* a step that ends the SELECT of an id without a row
C2_NotFoundStep ==
  \A p \in Procs :
    (/\ pc[p] = "select" /\ pc'[p] # "select"
     /\ ~loc[p].id_produto.nan
     /\ loc[p].id_produto.n \notin DOMAIN db
     /\ log'[p][1].out # "error")
    => /\ pc'[p] = "done"
       /\ res'[p].status = 404
       /\ Ops(log'[p]) = <<"SELECT">>
       /\ db' = db
       /\ blobs' = blobs

\* C2: a DELETE /produtos/:id whose parsed id has no row when the SELECT runs
\* (and whose SELECT does not throw) is answered 404 at once: the handler has
\* issued the SELECT alone, no DELETE and no del, and neither store changes.
C2_DeleteOfAbsentIdIs404 == [][C2_NotFoundStep]_vars

\* an id that parses and has no row was answered 404
C2_Witness ==
  \E p \in Procs :
    /\ req[p].route = "DELETE" /\ pc[p] = "done"
    /\ ~loc[p].id_produto.nan
    /\ res[p].status = 404

\* C3: a DELETE /produtos/:id that found its row and whose DELETE statement
\* returned ends with 200 and the message naming the id, the row gone from the
\* table, whatever the blob deletions did (none, one or both failing).
C3_DeleteSucceedsDespiteBlobFailures ==
  \A p \in Procs :
    (/\ req[p].route = "DELETE"
     /\ Len(log[p]) >= 2
     /\ log[p][1].out = "ok"
     /\ log[p][2].out = "ok")
    => /\ loc[p].id_produto.n \notin DOMAIN db
       /\ pc[p] \in {"del", "done"}
       /\ pc[p] = "done" =>
            /\ res[p].status = 200
            /\ res[p].message = <<Int32(loc[p].id_produto.n)>>
            /\ res[p].error = ""

\* both blob deletions failed and the answer is 200
C3_Witness ==
  \E p \in Procs :
    /\ req[p].route = "DELETE" /\ pc[p] = "done"
    /\ Len(log[p]) = 4
    /\ log[p][3].op = "del" /\ log[p][3].out = "error"
    /\ log[p][4].op = "del" /\ log[p][4].out = "error"
    /\ res[p].status = 200

\* C4: in create the first failure ends the request with 500.  A failing image
\* decode issues nothing; a failing image put is the only call; after a stored
\* image, a failing document decode or put leaves no INSERT and no del, and the
\* image object stays in the blob store.
C4_CreateShortCircuits ==
  \A p \in Procs :
    (req[p].route = "POST" /\ pc[p] = "done" /\ res[p].status # 400)
    => LET img == req[p].body.imagem
           doc == req[p].body.pdfDataUrl
           lg == log[p]
       IN /\ ~WellFormed(img) => res[p].status = 500 /\ lg = <<>>
          /\ (WellFormed(img) /\ lg[1].out = "error") =>
               res[p].status = 500 /\ Ops(lg) = <<"put">>
          /\ (WellFormed(img) /\ lg[1].out = "ok" /\ ~WellFormed(doc)) =>
               /\ res[p].status = 500
               /\ Ops(lg) = <<"put">>
               /\ PublicUrl(lg[1].arg) \in blobs
          /\ (WellFormed(img) /\ lg[1].out = "ok" /\ WellFormed(doc)
                /\ lg[2].out = "error") =>
               /\ res[p].status = 500
               /\ Ops(lg) = <<"put", "put">>
               /\ PublicUrl(lg[1].arg) \in blobs
          /\ res[p].status = 500 => res[p].items = <<>>

\* the image is stored, the document put fails: 500 and the image is still there
C4_Witness ==
  \E p \in Procs :
    /\ req[p].route = "POST" /\ pc[p] = "done"
    /\ Ops(log[p]) = <<"put", "put">>
    /\ log[p][1].out = "ok" /\ log[p][2].out = "error"
    /\ res[p].status = 500
    /\ PublicUrl(log[p][1].arg) \in blobs

\* a step that adds a row, or that answers 201
C5_InsertStep ==
  /\ \A i \in DOMAIN db' \ DOMAIN db :
       \E p \in Procs :
         LET imageUrl == Str(PublicUrl(log[p][1].arg))
             documentUrl == Str(PublicUrl(log[p][2].arg))
         IN /\ pc[p] = "insert" /\ pc'[p] = "done"
            /\ Ops(log[p]) = <<"put", "put", "INSERT">>
            /\ log[p][1].out = "ok" /\ log[p][2].out = "ok"
            /\ imageUrl # documentUrl
            /\ db'[i].imagem_url = imageUrl
            /\ db'[i].pdf_url = documentUrl
            /\ db'[i].nome = req[p].body.nome
            /\ db'[i].youtube_link = req[p].body.youtubeLink
            /\ {imageUrl.s, documentUrl.s} \subseteq blobs'
            /\ res'[p].status = 201
            /\ res'[p].items =
                 <<[id |-> i, name |-> req[p].body.nome, image |-> imageUrl,
                    pdfDataUrl |-> documentUrl, youtubeLink |-> req[p].body.youtubeLink]>>
            /\ res'[p].items[1].image # req[p].body.imagem
            /\ res'[p].items[1].pdfDataUrl # req[p].body.pdfDataUrl
  /\ \A p \in Procs :
       (res'[p].status = 201 /\ pc[p] # "done") =>
         /\ pc[p] = "insert"
         /\ DOMAIN db' \ DOMAIN db = {res'[p].items[1].id}

\* C5: a row appears in the table only by the INSERT of a create request whose
\* two puts both returned; its imagem_url and pdf_url are the urls of those two
\* puts, in that order, both objects are in the blob store at that moment, and
\* the 201 response carries the new id and those urls, not the payloads.
C5_RowOnlyAfterBothUploads == [][C5_InsertStep]_vars

\* a create was answered 201 and its row is in the table
C5_Witness ==
  \E p \in Procs :
    /\ req[p].route = "POST" /\ pc[p] = "done"
    /\ res[p].status = 201
    /\ res[p].items[1].id \in DOMAIN db

\* C6 (as claimed): a DELETE /produtos/:id whose id does not parse, like one
\* whose id has no row, is answered 404 with the SELECT as its only call,
\* whenever the database is available.
C6_ParseFailureIsNotFound ==
  \A p \in Procs :
    (/\ req[p].route = "DELETE" /\ pc[p] = "done"
     /\ loc[p].err # "db unavailable"
     /\ loc[p].id_produto.nan \/ log[p][1].out = "norow")
    => /\ res[p].status = 404
       /\ Ops(log[p]) = <<"SELECT">>

\* a step of a list request
C7_ListStep ==
  \A p \in Procs :
    /\ (pc[p] = "query" /\ res'[p].status = 200) =>
         LET items == res'[p].items
         IN /\ Len(items) = Cardinality(DOMAIN db)
            /\ \A k \in 1..Len(items) :
                 /\ items[k].id \in DOMAIN db
                 /\ items[k].name = db[items[k].id].nome
                 /\ items[k].image = db[items[k].id].imagem_url
                 /\ items[k].pdfDataUrl = db[items[k].id].pdf_url
                 /\ items[k].youtubeLink = db[items[k].id].youtube_link
            /\ \A k \in 1..(Len(items) - 1) : items[k].id > items[k + 1].id
    /\ (req'[p].route = "GET" /\ <<pc[p], req[p]>> # <<pc'[p], req'[p]>>) =>
         db' = db /\ blobs' = blobs

\* C7: the list answers with one element per row of the table at the time of
\* the query, in strictly descending id order, each element the row renamed
\* (nome->name, imagem_url->image, pdf_url->pdfDataUrl, youtube_link->youtubeLink);
\* no step of a list request changes the table or the blob store.
C7_ListDescendingAndPure == [][C7_ListStep]_vars

\* a list of two rows or more
C7_Witness ==
  \E p \in Procs :
    /\ req[p].route = "GET" /\ pc[p] = "done"
    /\ res[p].status = 200
    /\ Len(res[p].items) >= 2

\* C8: a payload string without the prefix 'data:', or with no or with several
\* ';base64,', makes the decoder throw one of its two format errors before put
\* is issued for it: an ill-formed image leaves no call at all, an ill-formed
\* document leaves the put of the image as the only call.
C8_IllFormedPayloadFailsBeforePut ==
  \A p \in Procs :
    (req[p].route = "POST" /\ pc[p] = "done" /\ res[p].status # 400)
    => LET img == req[p].body.imagem
           doc == req[p].body.pdfDataUrl
       IN /\ (img.t = "string" /\ (~HasPrefix(img.s) \/ Delims(img.s) # 1)) =>
               /\ loc[p].err \in InvalidFormat
               /\ log[p] = <<>>
               /\ blobs = {}
          /\ (WellFormed(img) /\ log[p][1].out = "ok"
                /\ doc.t = "string" /\ (~HasPrefix(doc.s) \/ Delims(doc.s) # 1)) =>
               /\ loc[p].err \in InvalidFormat
               /\ Ops(log[p]) = <<"put">>
               /\ blobs = {PublicUrl(log[p][1].arg)}

\* the prefix is there and the delimiter occurs twice
C8_Witness ==
  \E p \in Procs :
    /\ req[p].route = "POST" /\ pc[p] = "done"
    /\ HasPrefix(req[p].body.imagem.s) /\ Delims(req[p].body.imagem.s) = 2
    /\ loc[p].err = "Base64 malformado."
    /\ log[p] = <<>>

\* the urls of the fetched row that a del is due for, and the urls del was called with
DueUrls(p) ==
  (IF Qualifies(loc[p].imagem_url) THEN <<loc[p].imagem_url.s>> ELSE <<>>)
    \o (IF Qualifies(loc[p].pdf_url) THEN <<loc[p].pdf_url.s>> ELSE <<>>)

DelArgs(lg) == [i \in 1..(Len(lg) - 2) |-> lg[i + 2].arg]

\* C9: in delete, once the DELETE statement has returned, del is called for
\* exactly those of the fetched row's imagem_url and pdf_url that are non-empty
\* and start with 'http', in that order and for nothing else, whatever the
\* earlier del did; never before the row is gone.
C9_BlobDeletionsIndependent ==
  \A p \in Procs :
    req[p].route = "DELETE" =>
      /\ \A i \in 1..Len(log[p]) : log[p][i].op = "del" =>
           /\ i >= 3
           /\ log[p][2].op = "DELETE" /\ log[p][2].out = "ok"
           /\ loc[p].id_produto.n \notin DOMAIN db
      /\ (Len(log[p]) >= 2 /\ log[p][2].out = "ok") =>
           /\ Len(DelArgs(log[p])) <= Len(DueUrls(p))
           /\ DelArgs(log[p]) = SubSeq(DueUrls(p), 1, Len(log[p]) - 2)
           /\ pc[p] = "done" => DelArgs(log[p]) = DueUrls(p)

\* the image deletion failed and the document deletion was attempted all the same
C9_Witness ==
  \E p \in Procs :
    /\ req[p].route = "DELETE" /\ pc[p] = "done"
    /\ Len(log[p]) = 4
    /\ log[p][3].op = "del" /\ log[p][3].out = "error"
    /\ log[p][4].op = "del" /\ log[p][4].arg = loc[p].pdf_url.s

\* every url column that names a blob-store object names a stored one
C10_RowsReferToStoredObjects ==
  \A i \in DOMAIN db :
    /\ Qualifies(db[i].imagem_url) => db[i].imagem_url.s \in blobs
    /\ Qualifies(db[i].pdf_url) => db[i].pdf_url.s \in blobs

\* a step that removes an object from the store, or that answers a list
C10_Step ==
  /\ \A u \in blobs \ blobs' :
       \E p \in Procs :
         /\ pc[p] = "del"
         /\ req[p].route = "DELETE"
         /\ log[p][2].op = "DELETE" /\ log[p][2].out = "ok"
         /\ loc[p].id_produto.n \notin DOMAIN db
         /\ u = log[p][Len(log[p])].arg
         /\ \A i \in DOMAIN db : u \notin {db[i].imagem_url.s, db[i].pdf_url.s}
  /\ \A p \in Procs :
       (pc[p] = "query" /\ res'[p].status = 200) =>
         \A k \in 1..Len(res'[p].items) :
           /\ Qualifies(res'[p].items[k].image) => res'[p].items[k].image.s \in blobs'
           /\ Qualifies(res'[p].items[k].pdfDataUrl) =>
                res'[p].items[k].pdfDataUrl.s \in blobs'

\* C10: under every interleaving of list, create and delete requests, every
\* row of the table refers to objects that are in the blob store; an object
\* leaves the store only by the del of a delete request whose DELETE statement
\* has returned and whose row is gone; and every url a list answers with is in
\* the store when the list is taken.
C10_NoRowOutlivesItsBlobs == []C10_RowsReferToStoredObjects /\ [][C10_Step]_vars

\* two delete requests for the same id have both seen the row and both run
\* their DELETE, and a blob of that row has been deleted
C10_Witness ==
  \E p, q \in Procs :
    /\ p # q
    /\ req[p].route = "DELETE" /\ req[q].route = "DELETE"
    /\ loc[p].id_produto = loc[q].id_produto
    /\ Len(log[p]) >= 3 /\ log[p][3].out = "ok"
    /\ Len(log[q]) >= 2 /\ log[q][2].out = "ok"

====
